---- MODULE Spec2Model ----
(***************************************************************************)
(* Model of packages/core/server.ts: the request handler made by           *)
(* createRequestHandler, the cached server initialization, and the three   *)
(* per-kind handlers (data fetch, manifest patch, HTML).                   *)
(*                                                                         *)
(* A request moves through the await points of the handler:                *)
(*   idle -> awaitDev (line 56) -> awaitInit (line 61) -> loading          *)
(*   (lines 139/147/234) -> rendering (line 329) -> done | rejected        *)
(* Every action runs the code between two await points as one step.        *)
(***************************************************************************)
EXTENDS Integers, Sequences, FiniteSets, TLC

VARIABLES env, initPromise, inits, purgeCount, reqs, slicer

vars == <<env, initPromise, inits, purgeCount, reqs, slicer>>

(***************************************************************************)
(* Bounds                                                                  *)
(***************************************************************************)
\* requests issued to one handler in the concurrent workload
MaxReqs == 2
\* requests issued to one handler in the loader workload
MaxLoadReqs == 1
\* longest entry-name list handed to getPartialManifest on its own
MaxNames == 2
\* calls of getPartialManifest made on the same manifest and list
MaxCalls == 2

Modes == {"development", "production"}

(***************************************************************************)
(* Requests: the raw URL is kept as its pathname (a sequence of pieces, so *)
(* that a string prefix is a sequence prefix) and its query pairs.         *)
(***************************************************************************)
DataPrefix == <<"/__remix_data">>
PatchPrefix == <<"/__remix_patch">>

Param(k, v) == [key |-> k, value |-> v]

Url(p, q) == [pathname |-> p, query |-> q]

\* the workload of the concurrent specification
SmallUrls ==
  { Url(DataPrefix, <<>>),
    Url(DataPrefix, <<Param("path", <<"/a">>)>>),
    Url(PatchPrefix, <<Param("path", <<"/a">>)>>),
    Url(<<"/a">>, <<>>) }

\* the workload of the loader specification
AllUrls ==
  SmallUrls \cup
  { Url(DataPrefix \o <<"_more">>, <<>>),
    Url(PatchPrefix, <<Param("from", <<"/a">>)>>),
    Url(PatchPrefix, <<Param("path", <<"/zzz">>)>>),
    Url(<<"/zzz">>, <<>>),
    Url(DataPrefix, <<Param("path", <<>>)>>),
    Url(DataPrefix, <<Param("path", <<"/zzz">>)>>),
    Url(DataPrefix, <<Param("path", <<"/a", "/b">>)>>),
    Url(DataPrefix, <<Param("from", <<"/a", "/b">>), Param("path", <<"/a", "/c">>)>>),
    Url(DataPrefix, <<Param("from", <<"/zzz">>), Param("path", <<"/a", "/b">>)>>),
    Url(DataPrefix, <<Param("from", <<>>), Param("path", <<"/a", "/b">>)>>),
    Url(PatchPrefix, <<>>),
    Url(PatchPrefix, <<Param("path", <<"/a", "/b">>)>>),
    Url(PatchPrefix \o <<"/x">>, <<Param("path", <<"/s">>)>>),
    Url(<<"/x">> \o DataPrefix, <<Param("path", <<"/a">>)>>),
    Url(<<"/s">>, <<>>),
    Url(<<"/a", "/b">>, <<>>),
    Url(<<"/a", "/b", "/c">>, <<>>) }

(***************************************************************************)
(* The application read by readConfig: its route tree, root directory and  *)
(* public path, and the browser manifest of its build.                     *)
(***************************************************************************)
Route(p, i, l) == [path |-> p, id |-> i, component |-> i \o ".js", loader |-> l]

NoLoader == "null"

RouteA == Route("a", "routes/a", "loaders/a.js")
RouteB == Route("b", "routes/a/b", "loaders/a/b.js")
RouteC == Route("c", "routes/a/b/c", "loaders/a/b/c.js")
RouteD == Route("c", "routes/a/c", "loaders/a/c.js")
RouteS == Route("s", "routes/s", NoLoader)

RouteMatch(pn, r) == [pathname |-> pn, params |-> <<>>, route |-> r]

Config == [rootDirectory |-> "/app", publicPath |-> "/build/",
           routes |-> {RouteA, RouteB, RouteC, RouteD, RouteS}]

Undefined == "undefined"

BrowserManifest ==
  [n \in {"__entry_browser__", "routes/a", "routes/a/b", "routes/a/b/c",
          "routes/a/c", "routes/s", "routes/404"} |-> "build/" \o n \o ".js"]

\* matchRoutes(routes, path): the ordered match list, outer route first;
\* null (no match) is the empty list, which matchRoutes never returns.
matchRoutes(routes, path) ==
  CASE path = <<"/a">> -> <<RouteMatch(<<"/a">>, RouteA)>>
    [] path = <<"/a", "/b">> ->
         <<RouteMatch(<<"/a">>, RouteA), RouteMatch(<<"/a", "/b">>, RouteB)>>
    [] path = <<"/a", "/b", "/c">> ->
         <<RouteMatch(<<"/a">>, RouteA), RouteMatch(<<"/a", "/b">>, RouteB),
           RouteMatch(<<"/a", "/b", "/c">>, RouteC)>>
    [] path = <<"/a", "/c">> ->
         <<RouteMatch(<<"/a">>, RouteA), RouteMatch(<<"/a", "/c">>, RouteD)>>
    [] path = <<"/s">> -> <<RouteMatch(<<"/s">>, RouteS)>>
    [] OTHER -> <<>>

(***************************************************************************)
(* URL helpers                                                             *)
(***************************************************************************)
\* String.prototype.startsWith on the raw URL
startsWith(url, prefix) ==
  /\ Len(url.pathname) >= Len(prefix)
  /\ SubSeq(url.pathname, 1, Len(prefix)) = prefix

\* createLocation(req.url): parsePath splits pathname and search
createLocation(url) ==
  [pathname |-> url.pathname, search |-> url.query, hash |-> "",
   state |-> "null", key |-> "default"]

\* URLSearchParams.get: the value of the first pair with that key, or null
Absent == [present |-> FALSE, value |-> <<>>]

RECURSIVE paramsGet(_, _)
paramsGet(search, k) ==
  IF search = <<>> THEN Absent
  ELSE IF Head(search).key = k
       THEN [present |-> TRUE, value |-> Head(search).value]
       ELSE paramsGet(Tail(search), k)

\* only the empty string is refused, null goes through
Falsy_emptyOnly(p) == p.present /\ p.value = <<>>

\* !path : null and the empty string are falsy
Falsy(p) == ~p.present \/ p.value = <<>>

(***************************************************************************)
(* Loader results (./loader): one per matched route.  The loader of the    *)
(* route at index i answers with one of four kinds; status and target      *)
(* carry the index so that two results of one kind can be told apart.      *)
(***************************************************************************)
LoaderResult(t, id, s, l, d) ==
  [type |-> t, routeId |-> id, httpStatus |-> s, location |-> l, data |-> d]

Pending == LoaderResult("pending", "", 0, <<>>, "")
LoaderResultSuccess(id, d) == LoaderResult("success", id, 200, <<>>, d)
LoaderResultRedirect(id, l, s) == LoaderResult("redirect", id, s, l, "")
LoaderResultError(id, s) == LoaderResult("error", id, s, <<>>, "")
LoaderResultChangeStatusCode(id, s) == LoaderResult("changeStatusCode", id, s, <<>>, "")
LoaderResultCopy(id) == LoaderResult("copy", id, 200, <<>>, "")

\* what the loader of the match at index i may settle with
LoaderOutcomes(match, i) ==
  LET id == match.route.id IN
  { LoaderResultSuccess(id, "data:" \o id),
    LoaderResultRedirect(id, <<"/to", match.route.path>>, 300 + i),
    LoaderResultError(id, 499 + i),
    LoaderResultChangeStatusCode(id, 200 + i) }

\* loadData(config, matches, location, context), up to its await: every
\* route with a loader is invoked, a route without one yields Success(null)
loadData(matches) ==
  [results |-> [i \in 1..Len(matches) |->
                  IF matches[i].route.loader = NoLoader
                  THEN LoaderResultSuccess(matches[i].route.id, "null")
                  ELSE Pending],
   invoked |-> {i \in 1..Len(matches) : matches[i].route.loader # NoLoader}]

\* the route at index i is unchanged between the two match lists
SameAt(matches, fromMatches, i) ==
  /\ i <= Len(fromMatches)
  /\ fromMatches[i].route.id = matches[i].route.id
  /\ fromMatches[i].route.loader = matches[i].route.loader

\* loadDataDiff(config, matches, fromMatches, location, context), up to its
\* await: only the routes not found at the same position are invoked
loadDataDiff(matches, fromMatches) ==
  [results |-> [i \in 1..Len(matches) |->
                  IF SameAt(matches, fromMatches, i)
                  THEN LoaderResultCopy(matches[i].route.id)
                  ELSE IF matches[i].route.loader = NoLoader
                       THEN LoaderResultSuccess(matches[i].route.id, "null")
                       ELSE Pending],
   invoked |-> {i \in 1..Len(matches) :
                  /\ ~SameAt(matches, fromMatches, i)
                  /\ matches[i].route.loader # NoLoader}]

\* the fan-in of the concurrent loader calls: the result of loader i goes
\* to slot i of the result list, whenever it settles
settleLoader(results, order, i, res) == [results EXCEPT ![i] = res]

\* the results are taken in the order in which the loaders settled
awaitLoaderResults_completionOrder(results, order) ==
  [k \in 1..Len(results) |->
     IF k <= Len(order) THEN results[order[k]] ELSE results[k]]

\* loaderResults = await loadData(...): the resolved list, as it is
awaitLoaderResults(results, order) == results

(***************************************************************************)
(* ./entry                                                                 *)
(***************************************************************************)
\* createRouteData: the data of the successful results, by route id
createRouteData(loaderResults) ==
  LET ok == {i \in 1..Len(loaderResults) : loaderResults[i].type = "success"}
  IN [id \in {loaderResults[i].routeId : i \in ok} |->
        loaderResults[CHOOSE i \in ok : loaderResults[i].routeId = id].data]

\* createRouteDataResults: the per-route result summaries, in match order
createRouteDataResults(loaderResults) ==
  [i \in 1..Len(loaderResults) |->
     [id |-> loaderResults[i].routeId, type |-> loaderResults[i].type,
      status |-> loaderResults[i].httpStatus,
      location |-> loaderResults[i].location, data |-> loaderResults[i].data]]

matchIds(matches) == [i \in 1..Len(matches) |-> matches[i].route.id]

Range(s) == {s[i] : i \in 1..Len(s)}

\* createRouteManifest: route id -> path, id and component of the route
createRouteManifest(matches) ==
  [id \in Range(matchIds(matches)) |->
     LET m == matches[CHOOSE i \in 1..Len(matches) : matches[i].route.id = id]
     IN [path |-> m.route.path, id |-> id, component |-> m.route.component]]

\* createRouteParams: route id -> the params of its match
createRouteParams(matches) ==
  [id \in Range(matchIds(matches)) |->
     matches[CHOOSE i \in 1..Len(matches) : matches[i].route.id = id].params]

(***************************************************************************)
(* getPartialManifest (lines 332-340)                                      *)
(***************************************************************************)
\* {}: an object without keys
EmptyObject == [n \in {} |-> Undefined]

\* a name that the source lacks gets no key
reduceStep_skipMissing(memo, manifest, entryName) ==
  IF entryName \in DOMAIN manifest
  THEN [n \in DOMAIN memo \cup {entryName} |->
          IF n = entryName THEN manifest[entryName] ELSE memo[n]]
  ELSE memo

\* lines 336-338: memo[entryName] = manifest[entryName]; reading a key
\* that the manifest lacks gives undefined
reduceStep(memo, manifest, entryName) ==
  [n \in DOMAIN memo \cup {entryName} |->
     IF n = entryName
     THEN IF entryName \in DOMAIN manifest THEN manifest[entryName]
          ELSE Undefined
     ELSE memo[n]]

RECURSIVE reduce(_, _, _)
\* entryNames.reduce(callback, memo), left to right
reduce(memo, manifest, entryNames) ==
  IF entryNames = <<>> THEN memo
  ELSE reduce(reduceStep(memo, manifest, Head(entryNames)), manifest,
              Tail(entryNames))

getPartialManifest(manifest, entryNames) ==
  reduce(EmptyObject, manifest, entryNames)

\* the objects of one run of getPartialManifest on its own: object 0 is the
\* manifest argument, object k the accumulator that call k creates
SourceObject == 0

\* the manifest itself is handed to reduce as its initial value
initialValue_manifest(call) == SourceObject

\* line 339: the initial value of reduce is a new object for each call
initialValue(call) == call

ManifestKeys == {"__entry_browser__", "routes/a", "routes/404"}
EntryNames == ManifestKeys \cup {"routes/500"}
Bundles == {"x.js", "y.js"}

Manifests == UNION {[keys -> Bundles] : keys \in SUBSET ManifestKeys}

NameLists == UNION {[1..n -> EntryNames] : n \in 0..MaxNames}

Slicer(manifest, entryNames) ==
  [pc |-> "idle", manifest |-> manifest, entryNames |-> entryNames,
   heap |-> [o \in 0..MaxCalls |-> IF o = SourceObject THEN manifest
                                    ELSE EmptyObject],
   names |-> entryNames, memo |-> SourceObject, i |-> 0, calls |-> 0,
   returned |-> <<>>]

\* no run of getPartialManifest on its own
NoSlicer == Slicer(EmptyObject, <<>>)

(***************************************************************************)
(* Responses                                                               *)
(***************************************************************************)
Response(s, ct, loc, kind, b) ==
  [status |-> s, contentType |-> ct, location |-> loc, bodyKind |-> kind,
   body |-> b]

NoResponse == Response(0, "none", <<>>, "none", <<>>)

\* lines 117-122 and 170-175
MissingPathResponse ==
  Response(403, "application/json", <<>>, "json", <<"error", "Missing ?path">>)

\* the status is left out and defaults to 200
NoRoutesMatchedResponse_noStatus ==
  Response(200, "application/json", <<>>, "json", <<"error", "No routes matched">>)

\* lines 128-133
NoRoutesMatchedResponse ==
  Response(404, "application/json", <<>>, "json", <<"error", "No routes matched">>)

\* lines 181-183
NoMatchesFoundResponse(path) ==
  Response(404, "none", <<>>, "text", <<"No matches found for ">> \o path)

\* the status is taken from the first result that is not plain data
DataResponse_resultStatus(dataResults) ==
  LET odd == {i \in 1..Len(dataResults) :
                dataResults[i].type \in {"redirect", "error", "changeStatusCode"}}
  IN Response(IF odd = {} THEN 200
              ELSE dataResults[CHOOSE i \in odd : \A j \in odd : i <= j].status,
              "application/json", <<>>, "json", dataResults)

\* lines 155-159: the status defaults to 200
DataResponse(dataResults) ==
  Response(200, "application/json", <<>>, "json", dataResults)

\* lines 200-204
PatchResponse(payload) ==
  Response(200, "application/json", <<>>, "json", payload)

\* lines 242-247
RedirectResponse(redirectResult) ==
  Response(redirectResult.httpStatus, "none", redirectResult.location, "text",
           <<"Redirecting to ">> \o redirectResult.location)

\* the Response made by the render hook from its arguments
RenderedResponse(call) ==
  Response(call.statusCode, "none", <<>>, "rendered",
           call.entryContext.matchedRouteIds)

(***************************************************************************)
(* Server initialization (lines 79-102)                                    *)
(***************************************************************************)
\* the RemixServerInit that initialization k resolves to
RemixServerInit(k) ==
  [id |-> k, config |-> Config, browserManifest |-> BrowserManifest]

\* initializeServer(remixRoot), up to its await of readConfig
initializeServer == [state |-> "pending"]

(***************************************************************************)
(* Requests                                                                *)
(***************************************************************************)
NoUrl == Url(<<>>, <<>>)

IdleRequest ==
  [pc |-> "idle", url |-> NoUrl, slotAtArrival |-> 0, started |-> 0,
   awaiting |-> 0, init |-> 0, ran |-> <<>>, matcherCalls |-> 0,
   matches |-> <<>>, results |-> <<>>, invoked |-> {}, order |-> <<>>,
   slices |-> 0, renderCalls |-> <<>>, response |-> NoResponse,
   purgedUnder |-> FALSE, purges |-> <<>>]

\* return new Response(...) from the handler
respond(q, response) == [q EXCEPT !.pc = "done", !.response = response]

\* loaderResults = await loadData(...) / loadDataDiff(...): the handler
\* suspends until every invoked loader has settled
suspendOnLoad(q, matches, load) ==
  [q EXCEPT !.pc = "loading", !.matches = matches, !.results = load.results,
            !.invoked = load.invoked]

(***************************************************************************)
(* handleDataRequest (lines 104-160)                                       *)
(***************************************************************************)
\* the from parameter is ignored: every navigation is a full load
handleDataRequest_fullLoad(q, init) ==
  LET location == createLocation(q.url)
      path == paramsGet(location.search, "path")
      matches == matchRoutes(init.config.routes, path.value)
  IN IF Falsy(path) THEN respond(q, MissingPathResponse)
     ELSE IF matches = <<>>
          THEN respond([q EXCEPT !.matcherCalls = @ + 1], NoRoutesMatchedResponse)
          ELSE suspendOnLoad([q EXCEPT !.matcherCalls = @ + 1], matches,
                             loadData(matches))

handleDataRequest(q, init) ==
  LET location == createLocation(q.url)
      path == paramsGet(location.search, "path")
      from == paramsGet(location.search, "from")
      matches == matchRoutes(init.config.routes, path.value)
      fromMatches == matchRoutes(init.config.routes, from.value)
  IN IF Falsy(path) THEN respond(q, MissingPathResponse)
     ELSE IF matches = <<>>
          THEN respond([q EXCEPT !.matcherCalls = @ + 1], NoRoutesMatchedResponse)
          ELSE IF ~Falsy(from)
               THEN suspendOnLoad([q EXCEPT !.matcherCalls = @ + 2], matches,
                                  loadDataDiff(matches, fromMatches))
               ELSE suspendOnLoad([q EXCEPT !.matcherCalls = @ + 1], matches,
                                  loadData(matches))

\* lines 152-159, after the await
finishDataRequest(q) ==
  respond(q, DataResponse(createRouteDataResults(
                            awaitLoaderResults(q.results, q.order))))

(***************************************************************************)
(* handlePatchRequest (lines 162-205)                                      *)
(***************************************************************************)
handlePatchRequest(q, init) ==
  LET location == createLocation(q.url)
      path == paramsGet(location.search, "path")
      matches == matchRoutes(init.config.routes, path.value)
      matchedRouteIds == matchIds(matches)
      payload == [build |-> getPartialManifest(init.browserManifest, matchedRouteIds),
                  routes |-> createRouteManifest(matches)]
  IN IF Falsy(path) THEN respond(q, MissingPathResponse)
     ELSE IF matches = <<>>
          THEN respond([q EXCEPT !.matcherCalls = @ + 1],
                       NoMatchesFoundResponse(path.value))
          ELSE respond([q EXCEPT !.matcherCalls = @ + 1, !.matches = matches,
                                 !.slices = @ + 1],
                       PatchResponse(payload))

(***************************************************************************)
(* handleHtmlRequest (lines 207-330)                                       *)
(***************************************************************************)
\* the raw URL handed to matchRoutes (line 216)
rawUrl(url) ==
  IF url.query = <<>> THEN url.pathname ELSE url.pathname \o <<"?">>

\* lines 221-232, 257-268, 277-288: the synthetic single match
syntheticMatches(location, name) ==
  <<RouteMatch(location.pathname, Route("*", "routes/" \o name, NoLoader))>>

\* the scan runs from the end of the list
find_last(loaderResults, type) ==
  LET hits == {i \in 1..Len(loaderResults) : loaderResults[i].type = type}
  IN IF hits = {} THEN 0 ELSE CHOOSE i \in hits : \A j \in hits : i >= j

\* Array.prototype.find with an instanceof test: the index of the first
\* result of that kind, 0 when there is none
find(loaderResults, type) ==
  LET hits == {i \in 1..Len(loaderResults) : loaderResults[i].type = type}
  IN IF hits = {} THEN 0 ELSE CHOOSE i \in hits : \A j \in hits : i <= j

\* the scan for a ChangeStatusCode comes before the scan for an Error
substitute_changeFirst(location, matches, loaderResults) ==
  LET e == find(loaderResults, "error")
      c == find(loaderResults, "changeStatusCode")
  IN IF c # 0
     THEN [statusCode |-> loaderResults[c].httpStatus,
           matches |-> syntheticMatches(
                         location, ToString(loaderResults[c].httpStatus))]
     ELSE IF e # 0
          THEN [statusCode |-> loaderResults[e].httpStatus,
                matches |-> syntheticMatches(location, "500")]
          ELSE [statusCode |-> 200, matches |-> matches]

\* lines 250-290: the status and the matches after the scans for an Error
\* and, only without one, for a ChangeStatusCode
substitute(location, matches, loaderResults) ==
  LET e == find(loaderResults, "error")
      c == find(loaderResults, "changeStatusCode")
  IN IF e # 0
     THEN [statusCode |-> loaderResults[e].httpStatus,
           matches |-> syntheticMatches(location, "500")]
     ELSE IF c # 0
          THEN [statusCode |-> loaderResults[c].httpStatus,
                matches |-> syntheticMatches(
                              location, ToString(loaderResults[c].httpStatus))]
          ELSE [statusCode |-> 200, matches |-> matches]

\* line 294: the route data of the entry context
routeDataOf(matches, loaderResults) == createRouteData(loaderResults)

\* the entry bundle is left out of the slice
htmlEntryNames_routesOnly(matchedRouteIds) == matchedRouteIds

\* line 301: ["__entry_browser__"].concat(matchedRouteIds)
htmlEntryNames(matchedRouteIds) == <<"__entry_browser__">> \o matchedRouteIds

\* lines 293-329: build the entry context and call the render hook
render(q, init, statusCode, matches, loaderResults) ==
  LET matchedRouteIds == matchIds(matches)
      partialEntryContext ==
        [browserManifest |->
           getPartialManifest(init.browserManifest,
                              htmlEntryNames(matchedRouteIds)),
         matchedRouteIds |-> matchedRouteIds,
         publicPath |-> init.config.publicPath,
         routeManifest |-> createRouteManifest(matches),
         routeData |-> routeDataOf(matches, loaderResults),
         routeParams |-> createRouteParams(matches)]
  IN [q EXCEPT !.pc = "rendering", !.slices = @ + 1,
               !.renderCalls =
                  Append(@, [statusCode |-> statusCode, init |-> init.id,
                             entryContext |-> partialEntryContext])]

\* lines 212-234, up to the await of loadData
handleHtmlRequest(q, init) ==
  LET location == createLocation(q.url)
      matches == matchRoutes(init.config.routes, rawUrl(q.url))
      q1 == [q EXCEPT !.matcherCalls = @ + 1]
  IN IF matches = <<>>
     THEN render(q1, init, 404, syntheticMatches(location, "404"), <<>>)
     ELSE suspendOnLoad(q1, matches, loadData(matches))

\* lines 236-329, after the await of loadData
finishHtmlRequest(q, init) ==
  LET location == createLocation(q.url)
      loaderResults == awaitLoaderResults(q.results, q.order)
      redirect == find(loaderResults, "redirect")
      sub == substitute(location, q.matches, loaderResults)
  IN IF redirect # 0
     THEN respond(q, RedirectResponse(loaderResults[redirect]))
     ELSE render(q, init, sub.statusCode, sub.matches, loaderResults)

(***************************************************************************)
(* createRequestHandler (lines 51-77)                                      *)
(***************************************************************************)
\* String.prototype.includes in place of startsWith
includes(url, prefix) ==
  \E k \in 1..Len(url.pathname) :
    /\ k + Len(prefix) - 1 <= Len(url.pathname)
    /\ SubSeq(url.pathname, k, k + Len(prefix) - 1) = prefix

classify_includes(url) ==
  IF includes(url, DataPrefix) THEN "data"
  ELSE IF includes(url, PatchPrefix) THEN "patch"
  ELSE "html"

\* lines 65-75: the handler chosen by the prefix of the raw URL
classify(url) ==
  IF startsWith(url, DataPrefix) THEN "data"
  ELSE IF startsWith(url, PatchPrefix) THEN "patch"
  ELSE "html"

\* the handler keeps the snapshot it awaited at line 56
awaitedAtDispatch_snapshot(slotBefore, slotAfter) == slotBefore

\* line 61: the promise awaited is the one in the slot after line 58
awaitedAtDispatch(slotBefore, slotAfter) == slotAfter

dispatch(q, init) ==
  LET h == classify(q.url)
      q1 == [q EXCEPT !.init = init.id, !.ran = Append(@, h)]
  IN CASE h = "data" -> handleDataRequest(q1, init)
       [] h = "patch" -> handlePatchRequest(q1, init)
       [] OTHER -> handleHtmlRequest(q1, init)

(***************************************************************************)
(* State                                                                   *)
(*   env          NODE_ENV and the workload of the clients                 *)
(*   initPromise  the slot of createRequestHandler: index into inits       *)
(*   inits        every initializeServer call made so far, in call order   *)
(*   purgeCount   number of purgeRequireCache calls made so far            *)
(*   reqs         the requests, each at one of its await points            *)
(***************************************************************************)
\* every environment but the test one reloads
isDevelopment_notTest(nodeEnv) == nodeEnv # "test"

\* line 55: process.env.NODE_ENV === "development"
isDevelopment(nodeEnv) == nodeEnv = "development"

\* a rejection of the awaited initialization is swallowed
fulfilled_settled(is, k) == is[k].state # "pending"

\* lines 56 and 61: await initPromise gives a value only when the
\* initialization has resolved
fulfilled(is, k) == is[k].state = "resolved"

\* the new initialization is started before the purge
devReload_initFirst(q, is) ==
  LET started == [q EXCEPT !.started = Len(is) + 1]
  IN [inits |-> Append(is, initializeServer),
      req |-> [started EXCEPT !.purges =
                 Append(@, [root |-> RemixServerInit(q.awaiting).config.rootDirectory,
                            inits |-> Len(is) + 1])]]

\* lines 57-58 of request q: purgeRequireCache(config.rootDirectory), with
\* the config of the initialization just awaited, then initializeServer
devReload(q, is) ==
  LET purged == [q EXCEPT !.purges =
                   Append(@, [root |-> RemixServerInit(q.awaiting).config.rootDirectory,
                              inits |-> Len(is)])]
  IN [inits |-> Append(is, initializeServer),
      req |-> [purged EXCEPT !.started = Len(is) + 1]]

\* the handler of the request runs on the modules of its initialization and
\* has not returned yet
InFlight == {"loading", "rendering"}
Settled == {"done", "rejected", "closed"}

\* the continuation of request r behind its await can run: the promise it
\* awaits has settled
Ready(rs, is, r) ==
  \/ rs[r].pc \in {"awaitDev", "awaitInit"} /\ is[rs[r].awaiting].state # "pending"
  \/ rs[r].pc = "loading" /\ Range(rs[r].order) = rs[r].invoked

\* run to completion: an event of the outside (a new request, the end of an
\* I/O operation) is taken up only when no continuation is left to run
QueueEmpty == \A r \in DOMAIN reqs : ~Ready(reqs, inits, r)

\* purgeRequireCache(config.rootDirectory) called by request r: every
\* module under the root leaves the require cache, also those that the
\* initialization serving another in-flight request has loaded
purgeRequireCache(rs, is, r) ==
  [s \in DOMAIN rs |->
     IF /\ s # r
        /\ rs[s].pc \in InFlight
        /\ is[rs[s].init].state = "resolved"
     THEN [rs[s] EXCEPT !.purgedUnder = TRUE]
     ELSE rs[s]]

Workload(m, n, u, c) ==
  [mode |-> m, requests |-> n, urls |-> u, concurrent |-> c]

\* line 52: createRequestHandler starts the first initialization
InitWith(workloads) ==
  /\ env \in workloads
  /\ initPromise = 1
  /\ inits = <<initializeServer>>
  /\ purgeCount = 0
  /\ reqs = [r \in 1..env.requests |-> IdleRequest]
  /\ slicer = NoSlicer

Init == InitWith({Workload(m, MaxReqs, SmallUrls, TRUE) : m \in Modes})

InitLoad == InitWith({Workload(m, MaxLoadReqs, AllUrls, FALSE) : m \in Modes})

\* readConfig resolves and the build is read (lines 87-101)
InitResolve(k) ==
  /\ QueueEmpty
  /\ inits[k].state = "pending"
  /\ inits' = [inits EXCEPT ![k].state = "resolved"]
  /\ UNCHANGED <<env, initPromise, purgeCount, reqs, slicer>>

\* readConfig rejects or reading the build throws
InitReject(k) ==
  /\ QueueEmpty
  /\ inits[k].state = "pending"
  /\ inits' = [inits EXCEPT ![k].state = "rejected"]
  /\ UNCHANGED <<env, initPromise, purgeCount, reqs, slicer>>

\* a sequential client reads and drops a response before its next request
closeEarlier(rs, r) ==
  [s \in DOMAIN rs |->
     IF s < r /\ ~env.concurrent THEN [IdleRequest EXCEPT !.pc = "closed"]
     ELSE rs[s]]

\* lines 54-56 / 61: the handler is called and reaches its first await
Arrive(r, url) ==
  /\ QueueEmpty
  /\ reqs[r].pc = "idle"
  /\ \A s \in 1..(r - 1) : reqs[s].pc # "idle"
  /\ env.concurrent \/ \A s \in 1..(r - 1) : reqs[s].pc \in Settled
  /\ reqs' = [closeEarlier(reqs, r) EXCEPT ![r] =
                [@ EXCEPT !.pc = IF isDevelopment(env.mode)
                                 THEN "awaitDev" ELSE "awaitInit",
                          !.url = url,
                          !.slotAtArrival = initPromise,
                          !.awaiting = initPromise]]
  /\ UNCHANGED <<env, initPromise, inits, purgeCount, slicer>>

\* lines 56-61 in development: purge, replace the slot, await the slot
DevResume(r) ==
  /\ reqs[r].pc = "awaitDev"
  /\ fulfilled(inits, reqs[r].awaiting)
  /\ LET reload == devReload(reqs[r], inits)
     IN /\ purgeCount' = purgeCount + 1
        /\ inits' = reload.inits
        /\ initPromise' = Len(reload.inits)
        /\ reqs' = [purgeRequireCache(reqs, inits, r) EXCEPT ![r] =
                      [reload.req EXCEPT
                         !.pc = "awaitInit",
                         !.awaiting = awaitedAtDispatch(reqs[r].awaiting,
                                                        Len(reload.inits))]]
  /\ UNCHANGED <<env, slicer>>

\* line 56: the awaited initialization has rejected
DevRejected(r) ==
  /\ reqs[r].pc = "awaitDev"
  /\ inits[reqs[r].awaiting].state = "rejected"
  /\ reqs' = [reqs EXCEPT ![r].pc = "rejected"]
  /\ UNCHANGED <<env, initPromise, inits, purgeCount, slicer>>

\* lines 61-76: init is there, the handler for the URL runs to its first
\* await or to its return
Dispatch(r) ==
  /\ reqs[r].pc = "awaitInit"
  /\ fulfilled(inits, reqs[r].awaiting)
  /\ reqs' = [reqs EXCEPT ![r] = dispatch(@, RemixServerInit(reqs[r].awaiting))]
  /\ UNCHANGED <<env, initPromise, inits, purgeCount, slicer>>

\* line 61: the awaited initialization has rejected
InitRejected(r) ==
  /\ reqs[r].pc = "awaitInit"
  /\ inits[reqs[r].awaiting].state = "rejected"
  /\ reqs' = [reqs EXCEPT ![r].pc = "rejected"]
  /\ UNCHANGED <<env, initPromise, inits, purgeCount, slicer>>

\* the loader of match i of request r settles
LoaderSettle(r, i) ==
  /\ QueueEmpty
  /\ reqs[r].pc = "loading"
  /\ i \in reqs[r].invoked
  /\ i \notin Range(reqs[r].order)
  /\ \E res \in LoaderOutcomes(reqs[r].matches[i], i) :
       reqs' = [reqs EXCEPT ![r] =
                  [@ EXCEPT !.results = settleLoader(@, reqs[r].order, i, res),
                            !.order = Append(@, i)]]
  /\ UNCHANGED <<env, initPromise, inits, purgeCount, slicer>>

\* every loader has settled: the handler resumes after its await
LoadDone(r) ==
  /\ reqs[r].pc = "loading"
  /\ Range(reqs[r].order) = reqs[r].invoked
  /\ reqs' = [reqs EXCEPT ![r] =
                IF @.ran = <<"data">> THEN finishDataRequest(@)
                ELSE finishHtmlRequest(@, RemixServerInit(@.init))]
  /\ UNCHANGED <<env, initPromise, inits, purgeCount, slicer>>

\* line 329: the render hook returns its Response
RenderReturn(r) ==
  /\ QueueEmpty
  /\ reqs[r].pc = "rendering"
  /\ reqs' = [reqs EXCEPT ![r] =
                respond(@, RenderedResponse(@.renderCalls[Len(@.renderCalls)]))]
  /\ UNCHANGED <<env, initPromise, inits, purgeCount, slicer>>

\* line 329: the render hook throws
RenderThrow(r) ==
  /\ QueueEmpty
  /\ reqs[r].pc = "rendering"
  /\ reqs' = [reqs EXCEPT ![r].pc = "rejected"]
  /\ UNCHANGED <<env, initPromise, inits, purgeCount, slicer>>

Next ==
  \/ \E k \in DOMAIN inits : InitResolve(k)
  \/ \E k \in DOMAIN inits : InitReject(k)
  \/ \E r \in DOMAIN reqs : \E url \in env.urls : Arrive(r, url)
  \/ \E r \in DOMAIN reqs : DevResume(r)
  \/ \E r \in DOMAIN reqs : DevRejected(r)
  \/ \E r \in DOMAIN reqs : Dispatch(r)
  \/ \E r \in DOMAIN reqs : InitRejected(r)
  \/ \E r \in DOMAIN reqs : \E i \in 1..Len(reqs[r].matches) : LoaderSettle(r, i)
  \/ \E r \in DOMAIN reqs : LoadDone(r)
  \/ \E r \in DOMAIN reqs : RenderReturn(r)
  \/ \E r \in DOMAIN reqs : RenderThrow(r)

Spec == Init /\ [][Next]_vars

SpecLoad == InitLoad /\ [][Next]_vars

(***************************************************************************)
(* getPartialManifest on its own: the manifest and the entry names are     *)
(* drawn from all small ones, and the reduce of lines 336-339 runs one     *)
(* callback at a time on the objects it reads and writes.                  *)
(***************************************************************************)
InitSlice ==
  /\ env = Workload("production", 0, {}, FALSE)
  /\ initPromise = 1
  /\ inits = <<initializeServer>>
  /\ purgeCount = 0
  /\ reqs = [r \in 1..env.requests |-> IdleRequest]
  /\ slicer \in {Slicer(m, l) : m \in Manifests, l \in NameLists}

\* lines 336 and 339: getPartialManifest(manifest, entryNames) is called
SliceCall ==
  /\ slicer.pc = "idle"
  /\ slicer.calls < MaxCalls
  /\ slicer' = [slicer EXCEPT !.pc = "reducing", !.calls = @ + 1, !.i = 1,
                              !.memo = initialValue(slicer.calls + 1)]
  /\ UNCHANGED <<env, initPromise, inits, purgeCount, reqs>>

\* lines 337-338: the callback runs for the next entry name
SliceStep ==
  /\ slicer.pc = "reducing"
  /\ slicer.i <= Len(slicer.names)
  /\ slicer' = [slicer EXCEPT
                  !.heap[slicer.memo] =
                     reduceStep(@, slicer.heap[SourceObject],
                                slicer.names[slicer.i]),
                  !.i = @ + 1]
  /\ UNCHANGED <<env, initPromise, inits, purgeCount, reqs>>

\* reduce returns the accumulator
SliceReturn ==
  /\ slicer.pc = "reducing"
  /\ slicer.i > Len(slicer.names)
  /\ slicer' = [slicer EXCEPT !.pc = "idle",
                              !.returned = Append(@, slicer.memo)]
  /\ UNCHANGED <<env, initPromise, inits, purgeCount, reqs>>

NextSlice ==
  \/ SliceCall
  \/ SliceStep
  \/ SliceReturn

SpecSlice == InitSlice /\ [][NextSlice]_vars

(***************************************************************************)
(* Properties                                                              *)
(***************************************************************************)
Requests == DOMAIN reqs

\* the indices of the results of one kind, and the lowest of them
IndicesOf(results, type) ==
  {i \in 1..Len(results) : results[i].type = type}

Lowest(S) == CHOOSE i \in S : \A j \in S : i <= j

\* the request has been handed to the HTML handler
IsHtml(q) == q.ran = <<"html">>

\* C1: the promise returned by the handler never rejects; every request
\* ends with a Response, whatever fails.
HandlerNeverRejects ==
  \A r \in Requests : reqs[r].pc # "rejected"

NoPurgeUnderInFlightRequest ==
  \A r \in Requests : ~reqs[r].purgedUnder

\* C4: in the HTML handler a Redirect among the loader results wins: the
\* response has the status and Location of the lowest-index Redirect,
\* whatever else the results hold; the render hook is not called, no
\* manifest is sliced and no entry context is built.
RedirectShortCircuits ==
  \A r \in Requests :
    LET q == reqs[r]
        redirects == IndicesOf(q.results, "redirect")
    IN (IsHtml(q) /\ redirects # {})
         => /\ q.renderCalls = <<>>
            /\ q.slices = 0
            /\ q.pc \in {"loading", "done"}
            /\ q.pc = "done"
                 => /\ q.response.status = q.results[Lowest(redirects)].httpStatus
                    /\ q.response.location = q.results[Lowest(redirects)].location
                    /\ q.response.bodyKind = "text"

RedirectWitness ==
  \E r \in Requests :
    /\ IsHtml(reqs[r])
    /\ reqs[r].pc = "done"
    /\ Len(reqs[r].results) = 3
    /\ reqs[r].results[1].type = "error"
    /\ reqs[r].results[2].type = "redirect"
    /\ reqs[r].results[3].type = "redirect"
    /\ reqs[r].response.status = 302

\* C5: in the HTML handler without a Redirect, the first Error sets the
\* status and leaves only routes/500, also behind an earlier
\* ChangeStatusCode; without an Error the first ChangeStatusCode sets the
\* status and leaves only routes/<code>; with neither the status is 200
\* and the real matches stay.
ErrorBeforeChangeStatusCode ==
  \A r \in Requests :
    LET q == reqs[r]
        errors == IndicesOf(q.results, "error")
        changes == IndicesOf(q.results, "changeStatusCode")
    IN (IsHtml(q) /\ q.matches # <<>> /\ q.renderCalls # <<>>)
         => LET call == q.renderCalls[1]
                ids == call.entryContext.matchedRouteIds
            IN /\ IndicesOf(q.results, "redirect") = {}
               /\ errors # {}
                    => /\ call.statusCode = q.results[Lowest(errors)].httpStatus
                       /\ ids = <<"routes/500">>
               /\ (errors = {} /\ changes # {})
                    => /\ call.statusCode = q.results[Lowest(changes)].httpStatus
                       /\ ids = <<"routes/" \o ToString(call.statusCode)>>
               /\ (errors = {} /\ changes = {})
                    => /\ call.statusCode = 200
                       /\ ids = matchIds(q.matches)

ErrorPrecedenceWitness ==
  \E r \in Requests :
    /\ IsHtml(reqs[r])
    /\ Len(reqs[r].results) = 2
    /\ reqs[r].results[1].type = "changeStatusCode"
    /\ reqs[r].results[2].type = "error"
    /\ Len(reqs[r].renderCalls) = 1
    /\ reqs[r].renderCalls[1].statusCode = 501
    /\ reqs[r].renderCalls[1].entryContext.matchedRouteIds = <<"routes/500">>

\* C6: when an Error result puts routes/500 in place of the matches, the
\* entry context given to the render hook holds no loader data of the real
\* matched routes.
ErrorPageDropsRouteData ==
  \A r \in Requests :
    LET q == reqs[r] IN
    (IsHtml(q) /\ q.renderCalls # <<>> /\ IndicesOf(q.results, "error") # {})
      => DOMAIN q.renderCalls[1].entryContext.routeData
           \cap Range(matchIds(q.matches)) = {}

\* the handler that the prefix of the raw URL asks for
HandlerFor(url) ==
  IF Head(url.pathname) = "/__remix_data" THEN "data"
  ELSE IF Head(url.pathname) = "/__remix_patch" THEN "patch"
  ELSE "html"

HasPathParam(url) ==
  \E i \in DOMAIN url.query : url.query[i].key = "path"

PathParam(url) ==
  url.query[CHOOSE i \in DOMAIN url.query : url.query[i].key = "path"].value

\* C8: a data-fetch or patch request without a path parameter is answered
\* 403, application/json, {"error":"Missing ?path"}, and neither the route
\* matcher nor a loader runs for it.
MissingPathIs403 ==
  \A r \in Requests :
    LET q == reqs[r] IN
    (q.ran \in {<<"data">>, <<"patch">>} /\ ~HasPathParam(q.url))
      => /\ q.pc = "done"
         /\ q.response.status = 403
         /\ q.response.contentType = "application/json"
         /\ q.response.bodyKind = "json"
         /\ q.response.body = <<"error", "Missing ?path">>
         /\ q.matcherCalls = 0
         /\ q.invoked = {}
         /\ q.order = <<>>

MissingPathWitness ==
  \E r \in Requests :
    /\ reqs[r].ran = <<"patch">>
    /\ reqs[r].url.query = <<Param("from", <<"/a">>)>>
    /\ reqs[r].response.status = 403

\* C9: a path that matches no route runs no loader; data-fetch answers 404
\* with JSON {"error":"No routes matched"}, patch answers 404 with the text
\* "No matches found for <path>", HTML calls the render hook once with
\* status 404 and matchedRouteIds = ["routes/404"].
NoMatchOutcomes ==
  \A r \in Requests :
    LET q == reqs[r]
        unmatched ==
          IF IsHtml(q) THEN matchRoutes(Config.routes, rawUrl(q.url)) = <<>>
          ELSE /\ HasPathParam(q.url)
               /\ PathParam(q.url) # <<>>
               /\ matchRoutes(Config.routes, PathParam(q.url)) = <<>>
    IN (q.ran # <<>> /\ unmatched)
         => /\ q.invoked = {}
            /\ q.order = <<>>
            /\ q.ran = <<"data">>
                 => /\ q.pc = "done"
                    /\ q.response.status = 404
                    /\ q.response.contentType = "application/json"
                    /\ q.response.bodyKind = "json"
                    /\ q.response.body = <<"error", "No routes matched">>
            /\ q.ran = <<"patch">>
                 => /\ q.pc = "done"
                    /\ q.response.status = 404
                    /\ q.response.bodyKind = "text"
                    /\ q.response.body
                         = <<"No matches found for ">> \o PathParam(q.url)
            /\ q.ran = <<"html">>
                 => /\ Len(q.renderCalls) = 1
                    /\ q.renderCalls[1].statusCode = 404
                    /\ q.renderCalls[1].entryContext.matchedRouteIds
                         = <<"routes/404">>

NoMatchWitness ==
  \E r \in Requests :
    /\ reqs[r].url = Url(<<"/zzz">>, <<>>)
    /\ reqs[r].pc = "done"
    /\ reqs[r].response.status = 404
    /\ reqs[r].response.bodyKind = "rendered"

\* the loaders of request q that settled with a result of that kind
SettledWith(q, type) ==
  {i \in Range(q.order) :
     \E k \in 1..Len(q.results) :
       /\ q.results[k].type = type
       /\ q.results[k].routeId = q.matches[i].route.id}

\* C10: the results of a full load are index-aligned with the matches for
\* every completion order of the loaders, so the HTML handler honours the
\* first Redirect or Error in match-list order, never in completion order.
ResultsInMatchOrder ==
  \A r \in Requests :
    LET q == reqs[r]
        redirected == SettledWith(q, "redirect")
        failed == SettledWith(q, "error")
    IN /\ \A i \in Range(q.order) :
            /\ q.results[i].type # "pending"
            /\ q.results[i].routeId = q.matches[i].route.id
       /\ (IsHtml(q) /\ q.pc = "done" /\ redirected # {})
            => q.response.status = 300 + Lowest(redirected)
       /\ (IsHtml(q) /\ q.renderCalls # <<>> /\ failed # {})
            => q.renderCalls[1].statusCode = 499 + Lowest(failed)

ReverseOrderWitness ==
  \E r \in Requests :
    /\ IsHtml(reqs[r])
    /\ reqs[r].order = <<3, 2, 1>>
    /\ reqs[r].results[1].type = "success"
    /\ reqs[r].results[2].type = "redirect"
    /\ reqs[r].results[3].type = "redirect"
    /\ reqs[r].pc = "done"
    /\ reqs[r].response.location = <<"/to", "b">>

\* the value of the first query pair with that key, <<>> without one
QueryValue(url, k) ==
  LET hits == {i \in DOMAIN url.query : url.query[i].key = k}
  IN IF hits = {} THEN <<>> ELSE url.query[Lowest(hits)].value

\* the request went to the data-fetch handler and its path matches
IsMatchedData(q) ==
  /\ q.ran = <<"data">>
  /\ matchRoutes(Config.routes, QueryValue(q.url, "path")) # <<>>

\* C11: a data-fetch request with `from` invokes only the loaders of the
\* routes of path's match list that are not at the same position, with the
\* same id and loader, in from's match list (a `from` that matches nothing
\* is an empty previous list); without `from` every loader is invoked.
DiffInvokesOnlyChangedRoutes ==
  \A r \in Requests :
    LET q == reqs[r]
        new == matchRoutes(Config.routes, QueryValue(q.url, "path"))
        old == matchRoutes(Config.routes, QueryValue(q.url, "from"))
        kept == {i \in 1..Len(new) :
                   /\ i <= Len(old)
                   /\ old[i].route.id = new[i].route.id
                   /\ old[i].route.loader = new[i].route.loader}
    IN IsMatchedData(q)
         => /\ q.invoked = (1..Len(new)) \ kept
            /\ Range(q.order) \subseteq q.invoked
            /\ q.pc = "done" => Range(q.order) = q.invoked

DiffWitness ==
  \E r \in Requests :
    /\ reqs[r].ran = <<"data">>
    /\ QueryValue(reqs[r].url, "from") = <<"/a", "/b">>
    /\ QueryValue(reqs[r].url, "path") = <<"/a", "/c">>
    /\ reqs[r].pc = "done"
    /\ reqs[r].order = <<2>>
    /\ reqs[r].results[1].type = "copy"

\* C12: a data-fetch request whose path matches is answered 200,
\* application/json, whatever the loader results are: no Redirect, Error or
\* ChangeStatusCode changes the status, sets a Location or removes the entry
\* of a sibling route from the payload.
DataResponseIsAlways200 ==
  \A r \in Requests :
    LET q == reqs[r] IN
    IsMatchedData(q)
      => /\ q.pc \in {"loading", "done"}
         /\ q.renderCalls = <<>>
         /\ q.pc = "done"
              => /\ q.response.status = 200
                 /\ q.response.contentType = "application/json"
                 /\ q.response.location = <<>>
                 /\ q.response.bodyKind = "json"
                 /\ Len(q.response.body) = Len(q.matches)
                 /\ \A i \in 1..Len(q.matches) :
                      /\ q.response.body[i].id = q.matches[i].route.id
                      /\ q.response.body[i].type = q.results[i].type
                      /\ q.response.body[i].data = q.results[i].data

DataResponseWitness ==
  \E r \in Requests :
    /\ reqs[r].ran = <<"data">>
    /\ reqs[r].pc = "done"
    /\ Len(reqs[r].results) = 2
    /\ reqs[r].results[1].type = "redirect"
    /\ reqs[r].results[2].type = "success"
    /\ reqs[r].response.status = 200
    /\ reqs[r].response.body[2].data = "data:routes/a/b"

\* C13: outside development, over any sequence of sequential or concurrent
\* requests, one initialization is ever started, the cache slot is never
\* reassigned, every request is served with that one RemixServerInit and
\* purgeRequireCache is never called.
ProductionInitializesOnce ==
  env.mode # "development"
    => /\ Len(inits) = 1
       /\ initPromise = 1
       /\ purgeCount = 0
       /\ \A r \in Requests :
            /\ reqs[r].purges = <<>>
            /\ reqs[r].started = 0
            /\ reqs[r].pc # "idle" => reqs[r].awaiting = 1
            /\ reqs[r].ran # <<>> => reqs[r].init = 1
            /\ \A i \in 1..Len(reqs[r].renderCalls) :
                 reqs[r].renderCalls[i].init = 1

ProductionWitness ==
  /\ env.mode = "production"
  /\ \E r, s \in Requests :
       /\ r < s
       /\ reqs[r].pc = "rendering"
       /\ reqs[r].init = 1
       /\ reqs[s].pc = "done"
       /\ reqs[s].init = 1
  /\ Len(inits) = 1

\* the ids of the match list that the HTML handler ends up with
FinalRouteIds(q) ==
  LET errors == IndicesOf(q.results, "error")
      changes == IndicesOf(q.results, "changeStatusCode")
  IN IF q.matches = <<>> THEN {"routes/404"}
     ELSE IF errors # {} THEN {"routes/500"}
     ELSE IF changes # {}
          THEN {"routes/" \o ToString(q.results[Lowest(changes)].httpStatus)}
          ELSE {q.matches[i].route.id : i \in 1..Len(q.matches)}

\* C14: the manifest slice of the HTML handler has exactly the keys
\* "__entry_browser__" and the ids of the final match list (the one
\* synthetic id after a substitution, none of the real ids then); the slice
\* of the patch handler has exactly the matched route ids and never
\* "__entry_browser__".
SlicePerHandler ==
  \A r \in Requests :
    LET q == reqs[r]
        matched == matchRoutes(Config.routes, QueryValue(q.url, "path"))
    IN /\ \A i \in 1..Len(q.renderCalls) :
            /\ q.ran = <<"html">>
            /\ DOMAIN q.renderCalls[i].entryContext.browserManifest
                 = {"__entry_browser__"} \cup FinalRouteIds(q)
            /\ Range(q.renderCalls[i].entryContext.matchedRouteIds)
                 = FinalRouteIds(q)
       /\ (q.ran = <<"patch">> /\ q.response.status = 200)
            => /\ matched # <<>>
               /\ DOMAIN q.response.body.build
                    = {matched[i].route.id : i \in 1..Len(matched)}
               /\ "__entry_browser__" \notin DOMAIN q.response.body.build

SliceWitness ==
  \E r \in Requests :
    /\ reqs[r].ran = <<"html">>
    /\ Len(reqs[r].matches) = 2
    /\ reqs[r].results[2].type = "error"
    /\ Len(reqs[r].renderCalls) = 1
    /\ DOMAIN reqs[r].renderCalls[1].entryContext.browserManifest
         = {"__entry_browser__", "routes/500"}

\* the objects that the calls of getPartialManifest made so far returned
Returned == {slicer.heap[slicer.returned[k]] : k \in 1..Len(slicer.returned)}

\* C15: getPartialManifest returns a manifest whose keys are exactly the
\* names of entryNames: a name that is a key of the source has the value of
\* the source, untransformed, a name that is not is still a key and has the
\* undefined marker, and no other key of the source appears.
PartialManifestHasExactlyEntryNames ==
  \A out \in Returned :
    /\ DOMAIN out = {slicer.entryNames[i] : i \in 1..Len(slicer.entryNames)}
    /\ \A n \in DOMAIN out :
         /\ n \in DOMAIN slicer.manifest => out[n] = slicer.manifest[n]
         /\ n \notin DOMAIN slicer.manifest => out[n] = Undefined

PartialManifestWitness ==
  /\ slicer.entryNames = <<"routes/500", "routes/a">>
  /\ DOMAIN slicer.manifest = {"__entry_browser__", "routes/a"}
  /\ slicer.manifest["routes/a"] = "y.js"
  /\ \E out \in Returned :
       /\ DOMAIN out = {"routes/500", "routes/a"}
       /\ out["routes/500"] = Undefined
       /\ out["routes/a"] = "y.js"

\* C16: getPartialManifest leaves the source manifest and the list of entry
\* names as they were, and two calls with the same arguments return objects
\* with the same keys and values.
PartialManifestIsPure ==
  /\ slicer.heap[SourceObject] = slicer.manifest
  /\ slicer.names = slicer.entryNames
  /\ \A k, l \in 1..Len(slicer.returned) :
       slicer.heap[slicer.returned[k]] = slicer.heap[slicer.returned[l]]

PartialManifestPureWitness ==
  /\ Len(slicer.returned) = 2
  /\ slicer.returned[1] # slicer.returned[2]
  /\ slicer.entryNames = <<"routes/a", "routes/500">>
  /\ DOMAIN slicer.manifest = {"__entry_browser__", "routes/a"}
  /\ slicer.heap[SourceObject] = slicer.manifest
  /\ slicer.heap[slicer.returned[1]] = slicer.heap[slicer.returned[2]]
  /\ DOMAIN slicer.heap[slicer.returned[2]] = {"routes/a", "routes/500"}

\* the request has got past its await of the cached initialization
PastFirstAwait(q) ==
  /\ q.pc \notin {"idle", "awaitDev"}
  /\ ~(q.pc = "rejected" /\ q.started = 0)

\* C17: in development a request whose await of the cached initialization
\* resolves does, before any handler runs and in this order, one purge keyed
\* by the root directory of the awaited config and one start of a new
\* initialization that replaces the slot; after n such requests n + 1
\* initializations have been started and n purges done, each purge before
\* the start of the initialization that replaces the slot.
DevReloadsInOrder ==
  env.mode = "development"
    => /\ purgeCount = Cardinality({r \in Requests : PastFirstAwait(reqs[r])})
       /\ Len(inits) = purgeCount + 1
       /\ initPromise = Len(inits)
       /\ \A r \in Requests :
            LET q == reqs[r] IN
            /\ q.ran # <<>> => PastFirstAwait(q)
            /\ ~PastFirstAwait(q) => q.purges = <<>> /\ q.started = 0
            /\ PastFirstAwait(q)
                 => /\ inits[q.slotAtArrival].state = "resolved"
                    /\ Len(q.purges) = 1
                    /\ q.purges[1].root = Config.rootDirectory
                    /\ q.purges[1].inits = q.started - 1
                    /\ q.started > q.slotAtArrival
                    /\ q.started <= initPromise
                    /\ \A s \in Requests \ {r} : reqs[s].started # q.started

DevReloadWitness ==
  /\ env.mode = "development"
  /\ \A r \in Requests : reqs[r].pc = "done"
  /\ \A r \in Requests : reqs[r].slotAtArrival = r /\ reqs[r].started = r + 1
  /\ Len(inits) = Cardinality(Requests) + 1
  /\ purgeCount = Cardinality(Requests)

Unsettled(q) == {i \in q.invoked : \A k \in 1..Len(q.order) : q.order[k] # i}

\* nothing is produced for a request before every loader started for it has
\* settled, and a request with an unsettled loader stays suspended
LoaderBarrier ==
  \A r \in Requests :
    LET q == reqs[r] IN
    Unsettled(q) # {}
      => /\ q.pc = "loading"
         /\ q.response = NoResponse
         /\ q.renderCalls = <<>>

\* C19: the HTML and data-fetch handlers produce nothing (no redirect, no
\* render hook call, no JSON response) before every loader started for the
\* request has settled, a request with an unsettled loader stays suspended
\* whatever the other requests do, and a request whose initialization has
\* resolved and whose loaders and render hook have all settled has its
\* response.
SettledRequestIsAnswered ==
  /\ LoaderBarrier
  /\ \A r \in Requests :
       LET q == reqs[r] IN
       (q.ran # <<>> /\ Unsettled(q) = {} /\ q.pc \notin {"loading", "rendering"})
         => q.pc = "done" /\ q.response # NoResponse

\* the request arrived on a slot whose initialization has rejected
OnRejectedSlot(q) ==
  /\ q.pc # "idle"
  /\ q.slotAtArrival # 0
  /\ inits[q.slotAtArrival].state = "rejected"

\* C20: a failed initialization is never recovered from: once the slot holds
\* an initialization that has rejected, the slot is never replaced, no other
\* initialization is started and nothing is purged, and every request that
\* arrives on it fails at its first await, in production and in development,
\* without a purge, a new initialization or a handler.
RejectedSlotIsNeverReplaced ==
  /\ [](\A r \in Requests :
          LET q == reqs[r] IN
          OnRejectedSlot(q)
            => /\ q.pc \in {"awaitDev", "awaitInit", "rejected"}
               /\ q.awaiting = q.slotAtArrival
               /\ q.started = 0
               /\ q.purges = <<>>
               /\ q.ran = <<>>
               /\ q.response = NoResponse)
  /\ [][inits[initPromise].state = "rejected"
          => /\ initPromise' = initPromise
             /\ Len(inits') = Len(inits)
             /\ inits'[initPromise] = inits[initPromise]
             /\ purgeCount' = purgeCount
             /\ \A r \in Requests :
                  (OnRejectedSlot(reqs[r]) /\ reqs'[r] # reqs[r])
                    => reqs'[r] = [reqs[r] EXCEPT !.pc = "rejected"]]_vars

RejectedSlotWitness ==
  /\ env.mode = "development"
  /\ inits[initPromise].state = "rejected"
  /\ \E r, s \in Requests :
       /\ reqs[r].started = initPromise
       /\ reqs[r].pc = "rejected"
       /\ reqs[s].slotAtArrival = initPromise
       /\ reqs[s].pc = "rejected"
       /\ reqs[s].started = 0
       /\ purgeCount = 1

====
